---- MODULE Spec2Model ----
(***************************************************************************)
(* The streaming window analytics engine of highload-final                 *)
(* (package analytics: Analyzer, MetricWindow) together with the parts of  *)
(* main and of the HTTP handlers that drive it.                            *)
(*                                                                         *)
(* Go float64 values are modelled as exact rationals <<num, den>> in       *)
(* lowest terms.  math.Sqrt is strictly increasing on the non-negative     *)
(* reals, so a standard deviation is carried as its square (the variance)  *)
(* and a z-score as its sign and its square; every comparison the code     *)
(* makes on them is made on the squares.                                   *)
(***************************************************************************)
EXTENDS Integers, Sequences, FiniteSets, TLC

\* ------------------------------------------------------------------ bounds
\* Worker goroutines started by Start (main starts 4).
NumWorkers == 2
\* Capacity of metricsChan (the code allocates 1000; the same select/default
\* logic is explored here at a capacity that a burst of MaxSubmit fills).
MetricsChanCap == 2
\* Capacity of resultsChan (1000 in the code).
ResultsChanCap == 1
\* windowSize handed to NewAnalyzer (WINDOW_SIZE, default 50).
WindowSize == 2
\* HTTP requests to /metrics over the life of the process.
MaxSubmit == 3
\* Concurrent callers of GetStats.
NumStatsCallers == 1

\* ANOMALY_THRESHOLD's default.
DefaultThreshold == 2

Workers == 1..NumWorkers
StatsCallers == 1..NumStatsCallers
Devices == {"d1", "d2"}
\* (cpu, rps) pairs a request may carry.
Samples == {<<10, 5>>, <<100, 50>>}

VARIABLES
    windowSize,        \* Analyzer.windowSize
    anomalyThreshold,  \* Analyzer.anomalyThreshold
    windows,           \* Analyzer.windows: device -> index into heap, 0 = no entry
    heap,              \* the MetricWindow objects allocated so far
    mu,                \* Analyzer.mu: [writer, readers]
    metricsChan,       \* buffered contents of Analyzer.metricsChan
    resultsChan,       \* buffered contents of Analyzer.resultsChan
    closed,            \* the channels that have been closed
    wg,                \* Analyzer.wg counter
    pc,                \* each worker's position in processMetrics / analyze
    data,              \* each worker's local `data`
    window,            \* each worker's local `window` (heap index)
    exists,            \* each worker's local `exists`
    result,            \* each worker's local `result`
    mainPc,            \* main's position: Start, serving, Shutdown, Stop's steps
    consumerPc,        \* processAnalysisResults' position
    statsPc,           \* each GetStats caller's position
    statsOut,          \* what each caller's last GetStats returned
    panicked,          \* a goroutine panicked: the process is gone
    nRequests,         \* requests handled by SubmitMetric so far
    rejected,          \* history: requests answered 400
    accepted,          \* history: timestamps of readings enqueued by AddMetric
    dropped,           \* history: timestamps of readings dropped by AddMetric
    dequeued,          \* history: timestamps in the order workers received them
    appended,          \* history: per device, readings in the order appended
    created,           \* history: per heap object, the device it was made for
    published,         \* history: timestamps whose result was enqueued
    resultDropped,     \* history: timestamps whose result was dropped
    inFlightAtStop,    \* history: timestamps workers held when stop was raised
    batch,             \* BatchSubmitMetrics: the decoded metrics not yet looped over
    twin               \* a second Analyzer: its windows, heap and last result

config == <<windowSize, anomalyThreshold>>
registry == <<windows, heap, mu>>
chans == <<metricsChan, resultsChan, closed>>
locals == <<pc, data, window, exists, result>>
stats == <<statsPc, statsOut>>
inHistory == <<nRequests, rejected, accepted, dropped>>
outHistory == <<dequeued, appended, created, published, resultDropped,
                inFlightAtStop>>
others == <<batch, twin>>
vars == <<config, registry, chans, wg, locals, mainPc, consumerPc, stats,
          panicked, inHistory, outHistory, others>>

\* ---------------------------------------------------------------- numbers
Abs(x) == IF x < 0 THEN -x ELSE x

Sign(x) == IF x > 0 THEN 1 ELSE IF x < 0 THEN -1 ELSE 0

RECURSIVE GCD(_, _)
GCD(a, b) == IF b = 0 THEN a ELSE GCD(b, a % b)

\* The rational n/d (d > 0) in lowest terms.
Rat(n, d) ==
    LET g == GCD(Abs(n), d)
    IN  <<n \div g, d \div g>>

RatLess(a, b) == a[1] * b[2] < b[1] * a[2]

\* math.Max on two rationals.
RatMax(a, b) == IF RatLess(a, b) THEN b ELSE a

Min(a, b) == IF a < b THEN a ELSE b

RECURSIVE SeqSum(_)
SeqSum(s) == IF s = <<>> THEN 0 ELSE Head(s) + SeqSum(Tail(s))

\* The last n elements of s.
LastN(s, n) == SubSeq(s, Len(s) - Min(n, Len(s)) + 1, Len(s))

\* ------------------------------------------------------------- statistics
\* calculateAverage: 0 for an empty slice, else sum / len.
calculateAverage(values) ==
    IF Len(values) = 0 THEN Rat(0, 1)
    ELSE Rat(SeqSum(values), Len(values))

RECURSIVE SumSqDiff(_, _)
\* The loop of calculateStdDev: the sum of (v - mean)^2, times mean's
\* denominator squared.
SumSqDiff(values, mean) ==
    IF values = <<>> THEN 0
    ELSE LET diff == Head(values) * mean[2] - mean[1]
         IN  diff * diff + SumSqDiff(Tail(values), mean)

\* calculateStdDev with the sample variance: the divisor is n - 1.
calculateStdDevSample(values, mean) ==
    IF Len(values) <= 1 THEN Rat(0, 1)
    ELSE Rat(SumSqDiff(values, mean), mean[2] * mean[2] * (Len(values) - 1))

\* calculateStdDev, as the square of what the code returns: 0 for an empty
\* slice, else the population variance sum((v - mean)^2) / len.
calculateStdDev(values, mean) ==
    IF Len(values) = 0 THEN Rat(0, 1)
    ELSE Rat(SumSqDiff(values, mean), mean[2] * mean[2] * Len(values))

\* The z-score without the stdDev > 0 test: the float64 division by zero
\* gives an infinity (n/0 here) or, for 0/0, NaN (0/0 here), and every
\* comparison with NaN is false.
zScoreUnguarded(x, avg, stdDevSq) ==
    LET diff == x * avg[2] - avg[1]
    IN  [sign |-> Sign(diff),
         sq   |-> IF stdDevSq[1] > 0
                  THEN Rat(diff * diff * stdDevSq[2],
                           avg[2] * avg[2] * stdDevSq[1])
                  ELSE <<diff * diff, 0>>]

\* analyze's z-score: (x - avg) / stdDev when stdDev > 0, else the zero value.
zScore(x, avg, stdDevSq) ==
    IF stdDevSq[1] > 0
    THEN LET diff == x * avg[2] - avg[1]
         IN  [sign |-> Sign(diff),
              sq   |-> Rat(diff * diff * stdDevSq[2],
                           avg[2] * avg[2] * stdDevSq[1])]
    ELSE [sign |-> 0, sq |-> Rat(0, 1)]

\* The threshold test with >= for >.
ReachesThreshold(z, threshold) ==
    z.sq[1] >= threshold * threshold * z.sq[2]

\* math.Abs(z) > threshold.
ExceedsThreshold(z, threshold) ==
    z.sq[1] > threshold * threshold * z.sq[2]

\* The label after the CPU test of analyze.
cpuAnomalyType(zCPU, threshold) ==
    IF ExceedsThreshold(zCPU, threshold)
    THEN IF zCPU.sign > 0 THEN "CPU_SPIKE" ELSE "CPU_DROP"
    ELSE ""

\* The RPS test overwriting the CPU label: no MULTIPLE_ANOMALY.
anomalyTypeLast(zCPU, zRPS, threshold) ==
    IF ExceedsThreshold(zRPS, threshold)
    THEN IF zRPS.sign > 0 THEN "RPS_SPIKE" ELSE "RPS_DROP"
    ELSE cpuAnomalyType(zCPU, threshold)

\* The label after the RPS test of analyze.
anomalyTypeOf(zCPU, zRPS, threshold) ==
    LET t == cpuAnomalyType(zCPU, threshold)
    IN  IF ExceedsThreshold(zRPS, threshold)
        THEN IF t # "" THEN "MULTIPLE_ANOMALY"
             ELSE IF zRPS.sign > 0 THEN "RPS_SPIKE" ELSE "RPS_DROP"
        ELSE t

\* The zero MetricData and AnalysisResult (a worker's locals before use).
NoData == [DeviceID |-> "", Timestamp |-> 0, CPU |-> 0, RPS |-> 0]

NoResult ==
    [DeviceID |-> "", Timestamp |-> 0,
     RollingAvgCPU |-> Rat(0, 1), RollingAvgRPS |-> Rat(0, 1),
     IsAnomaly |-> FALSE, AnomalyScore |-> Rat(0, 1),
     AnomalyType |-> "", StandardDev |-> Rat(0, 1)]

\* analyze from "rolling average" to its return: the AnalysisResult for
\* reading d over window contents cpuValues / rpsValues.  AnomalyScore and
\* StandardDev hold the squares of the code's values.
analyzeResult(d, cpuValues, rpsValues, threshold) ==
    LET avgCPU == calculateAverage(cpuValues)
        avgRPS == calculateAverage(rpsValues)
        stdDevCPU == calculateStdDev(cpuValues, avgCPU)
        stdDevRPS == calculateStdDev(rpsValues, avgRPS)
        zScoreCPU == zScore(d.CPU, avgCPU, stdDevCPU)
        zScoreRPS == zScore(d.RPS, avgRPS, stdDevRPS)
    IN  [DeviceID |-> d.DeviceID,
         Timestamp |-> d.Timestamp,
         RollingAvgCPU |-> avgCPU,
         RollingAvgRPS |-> avgRPS,
         IsAnomaly |-> ExceedsThreshold(zScoreCPU, threshold)
                         \/ ExceedsThreshold(zScoreRPS, threshold),
         AnomalyScore |-> RatMax(zScoreCPU.sq, zScoreRPS.sq),
         AnomalyType |-> anomalyTypeOf(zScoreCPU, zScoreRPS, threshold),
         StandardDev |-> RatMax(stdDevCPU, stdDevRPS)]

\* ----------------------------------------------------------------- window
\* A fresh MetricWindow as analyze allocates it.
NewWindow(size) ==
    [cpuValues |-> <<>>, rpsValues |-> <<>>, timestamps |-> <<>>,
     mu |-> 0, maxSize |-> size]

\* Trim with the bound off by one: the window is allowed one sample too many.
TrimLate(values, maxSize) ==
    IF Len(values) > maxSize + 1 THEN Tail(values) ELSE values

\* Trim that evicts the newest sample instead of the oldest.
TrimNewest(values, maxSize) ==
    IF Len(values) > maxSize THEN SubSeq(values, 1, Len(values) - 1)
    ELSE values

\* "Ограничиваем размер окна": drop index 0 when the slice outgrew maxSize.
Trim(values, maxSize) ==
    IF Len(values) > maxSize THEN Tail(values) ELSE values

\* The three appends of analyze followed by the trim.
AppendReading(win, d) ==
    [win EXCEPT
        !.cpuValues = Trim(Append(win.cpuValues, d.CPU), win.maxSize),
        !.rpsValues = Trim(Append(win.rpsValues, d.RPS), win.maxSize),
        !.timestamps = Trim(Append(win.timestamps, d.Timestamp), win.maxSize)]

\* ------------------------------------------------------------------ state
Keys == Devices \cup {""}

NoStats ==
    [devices_tracked |-> 0, window_size |-> 0, threshold |-> 0,
     queue_size |-> 0]

\* A second Analyzer as NewAnalyzer returns it.
NoTwin == [windows |-> [k \in Keys |-> 0], heap |-> <<>>, result |-> NoResult]

\* NewAnalyzer, before main calls Start.
Init ==
    /\ windowSize = WindowSize
    /\ anomalyThreshold = DefaultThreshold
    /\ windows = [k \in Keys |-> 0]
    /\ heap = <<>>
    /\ mu = [writer |-> 0, readers |-> {}]
    /\ metricsChan = <<>>
    /\ resultsChan = <<>>
    /\ closed = {}
    /\ wg = 0
    /\ pc = [w \in Workers |-> "idle"]
    /\ data = [w \in Workers |-> NoData]
    /\ window = [w \in Workers |-> 0]
    /\ exists = [w \in Workers |-> FALSE]
    /\ result = [w \in Workers |-> NoResult]
    /\ mainPc = "new"
    /\ consumerPc = "idle"
    /\ statsPc = [s \in StatsCallers |-> "idle"]
    /\ statsOut = [s \in StatsCallers |-> NoStats]
    /\ panicked = FALSE
    /\ nRequests = 0
    /\ rejected = {}
    /\ accepted = {}
    /\ dropped = {}
    /\ dequeued = <<>>
    /\ appended = [k \in Keys |-> <<>>]
    /\ created = <<>>
    /\ published = {}
    /\ resultDropped = {}
    /\ inFlightAtStop = {}
    /\ batch = <<>>
    /\ twin = NoTwin

\* ------------------------------------------------------- main and handlers
\* Analyzer.Start(workers): wg.Add(1) and go processMetrics(), per worker.
Start ==
    /\ ~panicked
    /\ mainPc = "new"
    /\ wg' = wg + NumWorkers
    /\ pc' = [w \in Workers |-> "select"]
    /\ mainPc' = "started"
    /\ UNCHANGED <<others, config, registry, chans, data, window, exists, result,
                   consumerPc, stats, panicked, inHistory, outHistory>>

\* main after Start: go processAnalysisResults, the HTTP server, updateMetrics.
Serve ==
    /\ ~panicked
    /\ mainPc = "started"
    /\ mainPc' = "serving"
    /\ consumerPc' = "ranging"
    /\ UNCHANGED <<others, config, registry, chans, wg, locals, stats, panicked,
                   inHistory, outHistory>>

\* AddMetric that enqueues whatever the queue already holds.
AddMetricUnbounded(d) ==
    /\ metricsChan' = Append(metricsChan, d)
    /\ accepted' = accepted \cup {d.Timestamp}
    /\ UNCHANGED <<panicked, dropped>>

\* Analyzer.AddMetric: select { case metricsChan <- data: default: }.
\* A send on a closed channel panics, in a select too.
AddMetric(d) ==
    IF "metricsChan" \in closed
    THEN /\ panicked' = TRUE
         /\ UNCHANGED <<metricsChan, accepted, dropped>>
    ELSE IF Len(metricsChan) < MetricsChanCap
    THEN /\ metricsChan' = Append(metricsChan, d)
         /\ accepted' = accepted \cup {d.Timestamp}
         /\ UNCHANGED <<panicked, dropped>>
    ELSE /\ dropped' = dropped \cup {d.Timestamp}
         /\ UNCHANGED <<panicked, metricsChan, accepted>>

\* Handler.SubmitMetric for one decoded POST /metrics: the handler stamps the
\* reading with time.Now() (here the request's sequence number), answers 400
\* to an empty device_id and hands every other reading to AddMetric.
SubmitMetric(dev, sample) ==
    /\ ~panicked
    /\ mainPc = "serving"
    /\ nRequests < MaxSubmit
    /\ nRequests' = nRequests + 1
    /\ IF dev = ""
       THEN /\ rejected' = rejected \cup {nRequests + 1}
            /\ UNCHANGED <<metricsChan, accepted, dropped, panicked>>
       ELSE /\ AddMetric([DeviceID |-> dev, Timestamp |-> nRequests + 1,
                          CPU |-> sample[1], RPS |-> sample[2]])
            /\ UNCHANGED rejected
    /\ UNCHANGED <<others, config, registry, resultsChan, closed, wg, locals, mainPc,
                   consumerPc, stats, outHistory>>

\* main: the signal arrives and server.Shutdown returns once the handlers in
\* progress are done, so no handler runs any more; the deferred
\* analyzer.Stop() is next.
Shutdown ==
    /\ ~panicked
    /\ mainPc = "serving"
    /\ batch = <<>>
    /\ mainPc' = "shutdown"
    /\ UNCHANGED <<others, config, registry, chans, wg, locals, consumerPc, stats,
                   panicked, inHistory, outHistory>>

\* ------------------------------------------------------------------- Stop
\* Worker w is between its receive from metricsChan and its publish.
InFlight(w) == pc[w] \in {"lookup", "insert", "append", "stats", "publish"}

\* Stop that closes the result stream along with raising the stop signal.
StopRaiseClosing ==
    /\ ~panicked
    /\ mainPc = "shutdown"
    /\ closed' = closed \cup {"stopChan", "resultsChan"}
    /\ mainPc' = "wait"
    /\ inFlightAtStop' = {data[w].Timestamp : w \in {v \in Workers : InFlight(v)}}
    /\ UNCHANGED <<others, config, registry, metricsChan, resultsChan, wg,
                   locals, consumerPc, stats, panicked, inHistory, dequeued,
                   appended, created, published, resultDropped>>

\* Stop: close(a.stopChan).
StopRaise ==
    /\ ~panicked
    /\ mainPc = "shutdown"
    /\ closed' = closed \cup {"stopChan"}
    /\ mainPc' = "wait"
    /\ inFlightAtStop' = {data[w].Timestamp : w \in {v \in Workers : InFlight(v)}}
    /\ UNCHANGED <<others, config, registry, metricsChan, resultsChan, wg, locals,
                   consumerPc, stats, panicked, inHistory, dequeued, appended,
                   created, published, resultDropped>>

\* Stop that does not join the workers before closing the queues.
WaitSkipped == TRUE

\* What a.wg.Wait() waits for.
WaitDone == wg = 0

\* Stop that waits for the first worker to exit, not for all of them.
StopJoinAny ==
    /\ ~panicked
    /\ mainPc = "wait"
    /\ wg < NumWorkers
    /\ mainPc' = "closeMetrics"
    /\ UNCHANGED <<others, config, registry, chans, wg, locals, consumerPc, stats,
                   panicked, inHistory, outHistory>>

\* Stop: a.wg.Wait() returns.
StopJoin ==
    /\ ~panicked
    /\ mainPc = "wait"
    /\ WaitDone
    /\ mainPc' = "closeMetrics"
    /\ UNCHANGED <<others, config, registry, chans, wg, locals, consumerPc, stats,
                   panicked, inHistory, outHistory>>

\* Stop: close(a.metricsChan).
StopCloseMetrics ==
    /\ ~panicked
    /\ mainPc = "closeMetrics"
    /\ closed' = closed \cup {"metricsChan"}
    /\ mainPc' = "closeResults"
    /\ UNCHANGED <<others, config, registry, metricsChan, resultsChan, wg, locals,
                   consumerPc, stats, panicked, inHistory, outHistory>>

\* Stop: close(a.resultsChan), and Stop returns.
StopCloseResults ==
    /\ ~panicked
    /\ mainPc = "closeResults"
    /\ closed' = closed \cup {"resultsChan"}
    /\ mainPc' = "stopped"
    /\ UNCHANGED <<others, config, registry, metricsChan, resultsChan, wg, locals,
                   consumerPc, stats, panicked, inHistory, outHistory>>

\* ---------------------------------------------------------------- workers
\* A worker that gives up on stop wherever it is.
AtAnyPoint(w) == pc[w] \notin {"idle", "exited"}

\* The only place processMetrics looks at stopChan: the select at the top of
\* its loop.
AtSelect(w) == pc[w] = "select"

\* processMetrics that returns on stop without the deferred wg.Done.
WorkerStopNoDone(w) ==
    /\ ~panicked
    /\ AtSelect(w)
    /\ "stopChan" \in closed
    /\ pc' = [pc EXCEPT ![w] = "exited"]
    /\ UNCHANGED <<others, config, registry, chans, wg, data, window, exists,
                   result, mainPc, consumerPc, stats, panicked, inHistory,
                   outHistory>>

\* processMetrics, case <-a.stopChan: return (the deferred wg.Done runs).
\* select takes any ready case, so this competes with WorkerRecv.
WorkerStop(w) ==
    /\ ~panicked
    /\ AtSelect(w)
    /\ "stopChan" \in closed
    /\ pc' = [pc EXCEPT ![w] = "exited"]
    /\ wg' = wg - 1
    /\ UNCHANGED <<others, config, registry, chans, data, window, exists, result,
                   mainPc, consumerPc, stats, panicked, inHistory, outHistory>>

\* A receive that leaves the received element in the buffer.
RecvKeep(q) == q

\* What a receive leaves in a channel's buffer.
RecvRest(q) == Tail(q)

\* processMetrics over a stack: the receive takes the newest queued reading.
WorkerRecvLifo(w) ==
    /\ ~panicked
    /\ pc[w] = "select"
    /\ Len(metricsChan) > 0
    /\ data' = [data EXCEPT ![w] = metricsChan[Len(metricsChan)]]
    /\ metricsChan' = SubSeq(metricsChan, 1, Len(metricsChan) - 1)
    /\ dequeued' = Append(dequeued, metricsChan[Len(metricsChan)].Timestamp)
    /\ pc' = [pc EXCEPT ![w] = "lookup"]
    /\ UNCHANGED <<others, config, registry, resultsChan, closed, wg, window, exists,
                   result, mainPc, consumerPc, stats, panicked, inHistory,
                   appended, created, published, resultDropped,
                   inFlightAtStop>>

\* processMetrics, case data := <-a.metricsChan.  A receive from a closed,
\* drained channel yields the zero MetricData at once.
WorkerRecv(w) ==
    /\ ~panicked
    /\ pc[w] = "select"
    /\ \/ /\ Len(metricsChan) > 0
          /\ data' = [data EXCEPT ![w] = Head(metricsChan)]
          /\ metricsChan' = RecvRest(metricsChan)
          /\ dequeued' = Append(dequeued, Head(metricsChan).Timestamp)
       \/ /\ Len(metricsChan) = 0
          /\ "metricsChan" \in closed
          /\ data' = [data EXCEPT ![w] = NoData]
          /\ UNCHANGED <<metricsChan, dequeued>>
    /\ pc' = [pc EXCEPT ![w] = "lookup"]
    /\ UNCHANGED <<others, config, registry, resultsChan, closed, wg, window, exists,
                   result, mainPc, consumerPc, stats, panicked, inHistory,
                   appended, created, published, resultDropped,
                   inFlightAtStop>>

\* a.mu that excludes nobody.
MuNeverHeld == TRUE

\* a.mu.Lock() succeeds: no writer and no reader holds a.mu.
MuFree == mu.writer = 0 /\ mu.readers = {}

\* analyze: a.mu.Lock(); window, exists := a.windows[data.DeviceID].
RegistryLookup(w) ==
    /\ ~panicked
    /\ pc[w] = "lookup"
    /\ MuFree
    /\ mu' = [mu EXCEPT !.writer = w]
    /\ window' = [window EXCEPT ![w] = windows[data[w].DeviceID]]
    /\ exists' = [exists EXCEPT ![w] = windows[data[w].DeviceID] # 0]
    /\ pc' = [pc EXCEPT ![w] = "insert"]
    /\ UNCHANGED <<others, config, windows, heap, chans, wg, data, result, mainPc,
                   consumerPc, stats, panicked, inHistory, outHistory>>

\* analyze that keeps a.mu past the insert (say, a deferred unlock).
MuKept == mu

\* a.mu after analyze's a.mu.Unlock().
MuUnlock == [mu EXCEPT !.writer = 0]

\* analyze that allocates and inserts a window whether or not one exists.
RegistryInsertAlways(w) ==
    /\ ~panicked
    /\ pc[w] = "insert"
    /\ heap' = Append(heap, NewWindow(windowSize))
    /\ windows' = [windows EXCEPT ![data[w].DeviceID] = Len(heap) + 1]
    /\ window' = [window EXCEPT ![w] = Len(heap) + 1]
    /\ created' = Append(created, data[w].DeviceID)
    /\ mu' = MuUnlock
    /\ pc' = [pc EXCEPT ![w] = "append"]
    /\ UNCHANGED <<others, config, chans, wg, data, exists, result, mainPc,
                   consumerPc, stats, panicked, inHistory, dequeued, appended,
                   published, resultDropped, inFlightAtStop>>

\* analyze: if !exists, allocate the window and insert it; a.mu.Unlock().
RegistryInsert(w) ==
    /\ ~panicked
    /\ pc[w] = "insert"
    /\ IF exists[w]
       THEN UNCHANGED <<windows, heap, window, created>>
       ELSE /\ heap' = Append(heap, NewWindow(windowSize))
            /\ windows' = [windows EXCEPT ![data[w].DeviceID] = Len(heap) + 1]
            /\ window' = [window EXCEPT ![w] = Len(heap) + 1]
            /\ created' = Append(created, data[w].DeviceID)
    /\ mu' = MuUnlock
    /\ pc' = [pc EXCEPT ![w] = "append"]
    /\ UNCHANGED <<others, config, chans, wg, data, exists, result, mainPc,
                   consumerPc, stats, panicked, inHistory, dequeued, appended,
                   published, resultDropped, inFlightAtStop>>

\* A window lock that excludes nobody.
WindowNeverHeld(i) == TRUE

\* window.mu.Lock() succeeds on heap object i.
WindowFree(i) == heap[i].mu = 0

\* analyze that appends to the first window ever allocated, whatever the
\* device.
WindowAppendFirst(w) ==
    /\ ~panicked
    /\ pc[w] = "append"
    /\ WindowFree(window[w])
    /\ heap' = [heap EXCEPT ![1] = AppendReading(@, data[w]),
                            ![window[w]].mu = w]
    /\ appended' = [appended EXCEPT ![data[w].DeviceID] = Append(@, data[w])]
    /\ pc' = [pc EXCEPT ![w] = "stats"]
    /\ UNCHANGED <<others, config, windows, mu, chans, wg, data, window, exists,
                   result, mainPc, consumerPc, stats, panicked, inHistory,
                   dequeued, created, published, resultDropped,
                   inFlightAtStop>>

\* analyze: window.mu.Lock(), the three appends and the trim.
WindowAppend(w) ==
    /\ ~panicked
    /\ pc[w] = "append"
    /\ WindowFree(window[w])
    /\ heap' = [heap EXCEPT ![window[w]] =
                    [AppendReading(@, data[w]) EXCEPT !.mu = w]]
    /\ appended' = [appended EXCEPT ![data[w].DeviceID] = Append(@, data[w])]
    /\ pc' = [pc EXCEPT ![w] = "stats"]
    /\ UNCHANGED <<others, config, windows, mu, chans, wg, data, window, exists,
                   result, mainPc, consumerPc, stats, panicked, inHistory,
                   dequeued, created, published, resultDropped,
                   inFlightAtStop>>

\* analyze: averages, deviations, z-scores, classification; the return runs
\* the deferred window.mu.Unlock().
WindowStats(w) ==
    /\ ~panicked
    /\ pc[w] = "stats"
    /\ result' = [result EXCEPT ![w] =
                     analyzeResult(data[w], heap[window[w]].cpuValues,
                                   heap[window[w]].rpsValues, anomalyThreshold)]
    /\ heap' = [heap EXCEPT ![window[w]].mu = 0]
    /\ pc' = [pc EXCEPT ![w] = "publish"]
    /\ UNCHANGED <<others, config, windows, mu, chans, wg, data, window, exists,
                   mainPc, consumerPc, stats, panicked, inHistory, outHistory>>

\* processMetrics with a plain send, a.resultsChan <- result: the worker
\* waits while the channel is full.
PublishBlocking(w) ==
    /\ ~panicked
    /\ pc[w] = "publish"
    /\ "resultsChan" \in closed \/ Len(resultsChan) < ResultsChanCap
    /\ IF "resultsChan" \in closed
       THEN /\ panicked' = TRUE
            /\ UNCHANGED <<resultsChan, published>>
       ELSE /\ resultsChan' = Append(resultsChan, result[w])
            /\ published' = published \cup {result[w].Timestamp}
            /\ UNCHANGED panicked
    /\ pc' = [pc EXCEPT ![w] = "select"]
    /\ data' = [data EXCEPT ![w] = NoData]
    /\ window' = [window EXCEPT ![w] = 0]
    /\ exists' = [exists EXCEPT ![w] = FALSE]
    /\ result' = [result EXCEPT ![w] = NoResult]
    /\ UNCHANGED <<others, config, registry, metricsChan, closed, wg, mainPc,
                   consumerPc, stats, inHistory, dequeued, appended, created,
                   resultDropped, inFlightAtStop>>

\* processMetrics: select { case a.resultsChan <- result: default: }, and
\* back to the top of the loop.
Publish(w) ==
    /\ ~panicked
    /\ pc[w] = "publish"
    /\ IF "resultsChan" \in closed
       THEN /\ panicked' = TRUE
            /\ UNCHANGED <<resultsChan, published, resultDropped>>
       ELSE IF Len(resultsChan) < ResultsChanCap
       THEN /\ resultsChan' = Append(resultsChan, result[w])
            /\ published' = published \cup {result[w].Timestamp}
            /\ UNCHANGED <<panicked, resultDropped>>
       ELSE /\ resultDropped' = resultDropped \cup {result[w].Timestamp}
            /\ UNCHANGED <<panicked, resultsChan, published>>
    /\ pc' = [pc EXCEPT ![w] = "select"]
    /\ data' = [data EXCEPT ![w] = NoData]
    /\ window' = [window EXCEPT ![w] = 0]
    /\ exists' = [exists EXCEPT ![w] = FALSE]
    /\ result' = [result EXCEPT ![w] = NoResult]
    /\ UNCHANGED <<others, config, registry, metricsChan, closed, wg, mainPc,
                   consumerPc, stats, inHistory, dequeued, appended, created,
                   inFlightAtStop>>

\* --------------------------------------------------------------- consumer
\* processAnalysisResults: one iteration of `for result := range resultsChan`.
Consume ==
    /\ ~panicked
    /\ consumerPc = "ranging"
    /\ Len(resultsChan) > 0
    /\ resultsChan' = RecvRest(resultsChan)
    /\ UNCHANGED <<others, config, registry, metricsChan, closed, wg, locals, mainPc,
                   consumerPc, stats, panicked, inHistory, outHistory>>

\* processAnalysisResults: the range ends on a closed, drained channel.
ConsumerExit ==
    /\ ~panicked
    /\ consumerPc = "ranging"
    /\ Len(resultsChan) = 0
    /\ "resultsChan" \in closed
    /\ consumerPc' = "done"
    /\ UNCHANGED <<others, config, registry, chans, wg, locals, mainPc, stats,
                   panicked, inHistory, outHistory>>

\* --------------------------------------------------------------- GetStats
\* GetStats: a.mu.RLock().  Callers are the /stats handler and updateMetrics.
StatsRLock(s) ==
    /\ ~panicked
    /\ mainPc \notin {"new", "started"}
    /\ statsPc[s] = "idle"
    /\ mu.writer = 0
    /\ mu' = [mu EXCEPT !.readers = @ \cup {s}]
    /\ statsPc' = [statsPc EXCEPT ![s] = "reading"]
    /\ statsOut' = [statsOut EXCEPT ![s] = NoStats]
    /\ UNCHANGED <<others, config, windows, heap, chans, wg, locals, mainPc,
                   consumerPc, panicked, inHistory, outHistory>>

\* GetStats that reports cap(a.metricsChan) for len(a.metricsChan).
StatsReturnCap(s) ==
    /\ ~panicked
    /\ statsPc[s] = "reading"
    /\ statsOut' = [statsOut EXCEPT ![s] =
                       [devices_tracked |->
                            Cardinality({k \in Keys : windows[k] # 0}),
                        window_size |-> windowSize,
                        threshold |-> anomalyThreshold,
                        queue_size |-> MetricsChanCap]]
    /\ mu' = [mu EXCEPT !.readers = @ \ {s}]
    /\ statsPc' = [statsPc EXCEPT ![s] = "idle"]
    /\ UNCHANGED <<others, config, windows, heap, chans, wg, locals, mainPc,
                   consumerPc, panicked, inHistory, outHistory>>

\* GetStats: build the map and return (the deferred a.mu.RUnlock() runs).
StatsReturn(s) ==
    /\ ~panicked
    /\ statsPc[s] = "reading"
    /\ statsOut' = [statsOut EXCEPT ![s] =
                       [devices_tracked |->
                            Cardinality({k \in Keys : windows[k] # 0}),
                        window_size |-> windowSize,
                        threshold |-> anomalyThreshold,
                        queue_size |-> Len(metricsChan)]]
    /\ mu' = [mu EXCEPT !.readers = @ \ {s}]
    /\ statsPc' = [statsPc EXCEPT ![s] = "idle"]
    /\ UNCHANGED <<others, config, windows, heap, chans, wg, locals, mainPc,
                   consumerPc, panicked, inHistory, outHistory>>

\* ---------------------------------------------------------- specification
\* The engine as main wires it: handlers submit while the server is up, the
\* workers and the results consumer run, Stop follows server.Shutdown.
Next ==
    \/ Start
    \/ Serve
    \/ \E dev \in Keys, sample \in Samples : SubmitMetric(dev, sample)
    \/ Shutdown
    \/ StopRaise
    \/ StopJoin
    \/ StopCloseMetrics
    \/ StopCloseResults
    \/ \E w \in Workers : WorkerStop(w)
    \/ \E w \in Workers : WorkerRecv(w)
    \/ \E w \in Workers : RegistryLookup(w)
    \/ \E w \in Workers : RegistryInsert(w)
    \/ \E w \in Workers : WindowAppend(w)
    \/ \E w \in Workers : WindowStats(w)
    \/ \E w \in Workers : Publish(w)
    \/ Consume
    \/ ConsumerExit

Spec == Init /\ [][Next]_vars

\* The same engine with the GetStats callers running beside it.  GetStats
\* reads no sample value, so the requests carry one sample here.
StatsSamples == {<<10, 5>>}

NextStats ==
    \/ Start
    \/ Serve
    \/ \E dev \in Keys, sample \in StatsSamples : SubmitMetric(dev, sample)
    \/ Shutdown
    \/ StopRaise
    \/ StopJoin
    \/ StopCloseMetrics
    \/ StopCloseResults
    \/ \E w \in Workers : WorkerStop(w)
    \/ \E w \in Workers : WorkerRecv(w)
    \/ \E w \in Workers : RegistryLookup(w)
    \/ \E w \in Workers : RegistryInsert(w)
    \/ \E w \in Workers : WindowAppend(w)
    \/ \E w \in Workers : WindowStats(w)
    \/ \E w \in Workers : Publish(w)
    \/ Consume
    \/ ConsumerExit
    \/ \E s \in StatsCallers : StatsRLock(s)
    \/ \E s \in StatsCallers : StatsReturn(s)

SpecStats == Init /\ [][NextStats]_vars

\* The engine as main wires it, with the results consumer scheduled: the
\* goroutine running processAnalysisResults takes a step whenever it can.
SpecDrain == Spec /\ WF_vars(Consume) /\ WF_vars(ConsumerExit)

\* ------------------------------------------- a consumer that never drains
\* The steps of worker w's goroutine.
Worker(w) ==
    \/ WorkerStop(w)
    \/ WorkerRecv(w)
    \/ RegistryLookup(w)
    \/ RegistryInsert(w)
    \/ WindowAppend(w)
    \/ WindowStats(w)
    \/ Publish(w)

\* Worker w's goroutine can take a step.  Between the append and the return
\* of analyze it always can; elsewhere it can when its select has a ready
\* case or the lock it asks for is free.
WorkerReady(w) ==
    \/ ~panicked /\ pc[w] = "stats"
    \/ ENABLED (\/ WorkerStop(w)
                \/ WorkerRecv(w)
                \/ RegistryLookup(w)
                \/ RegistryInsert(w)
                \/ WindowAppend(w)
                \/ Publish(w))

\* Weak fairness of worker w's goroutine, WF_pc(Worker(w)) with its ENABLED
\* spelled out as WorkerReady: the goroutine is not ready forever without
\* taking a step.
WorkerFair(w) == []<>(~WorkerReady(w)) \/ []<><<Worker(w)>>_pc

\* The steps of Stop after the stop signal is raised.
StopRest == StopJoin \/ StopCloseMetrics \/ StopCloseResults

\* The engine as main wires it while processAnalysisResults never gets to
\* receive (it is stuck in a sink): nothing drains resultsChan.
NextStalled ==
    \/ Start
    \/ Serve
    \/ \E dev \in Keys, sample \in StatsSamples : SubmitMetric(dev, sample)
    \/ Shutdown
    \/ StopRaise
    \/ StopJoin
    \/ StopCloseMetrics
    \/ StopCloseResults
    \/ \E w \in Workers : WorkerStop(w)
    \/ \E w \in Workers : WorkerRecv(w)
    \/ \E w \in Workers : RegistryLookup(w)
    \/ \E w \in Workers : RegistryInsert(w)
    \/ \E w \in Workers : WindowAppend(w)
    \/ \E w \in Workers : WindowStats(w)
    \/ \E w \in Workers : Publish(w)

\* Every worker goroutine that can take a step eventually takes one, and so
\* does the goroutine inside Stop; requests and the shutdown signal come
\* when they come.  A worker's step always moves its pc and a step of Stop
\* moves mainPc.
SpecStalled ==
    /\ Init
    /\ [][NextStalled]_vars
    /\ \A w \in Workers : WorkerFair(w)
    /\ WF_mainPc(StopRest)

\* ------------------------------------------------------ the batch handler
\* Metrics in one POST /metrics/batch body.
MaxBatch == 2

\* The bodies a batch request may carry: up to MaxBatch metrics, each with
\* a device_id (possibly empty) and a sample.
Batches ==
    UNION {[1..n -> Keys \X StatsSamples] : n \in 1..MaxBatch}

\* Handler.BatchSubmitMetrics up to its loop: the body is decoded into
\* batchMetrics.  The metrics carry their own timestamps (here the next
\* sequence numbers).
BatchSubmitMetrics(b) ==
    /\ ~panicked
    /\ mainPc = "serving"
    /\ batch = <<>>
    /\ nRequests + Len(b) <= MaxSubmit
    /\ nRequests' = nRequests + Len(b)
    /\ batch' = [i \in 1..Len(b) |->
                    [DeviceID |-> b[i][1], Timestamp |-> nRequests + i,
                     CPU |-> b[i][2][1], RPS |-> b[i][2][2]]]
    /\ UNCHANGED <<twin, config, registry, chans, wg, locals, mainPc,
                   consumerPc, stats, panicked, rejected, accepted, dropped,
                   outHistory>>

\* The loop body without the device_id test.
BatchStepUnchecked ==
    /\ ~panicked
    /\ batch # <<>>
    /\ batch' = Tail(batch)
    /\ AddMetric(Head(batch))
    /\ UNCHANGED <<twin, config, registry, resultsChan, closed, wg, locals,
                   mainPc, consumerPc, stats, nRequests, rejected, outHistory>>

\* Handler.BatchSubmitMetrics, one iteration of `for _, metric := range
\* batchMetrics`: a metric with an empty device_id is skipped, every other
\* one is handed to AddMetric.
BatchStep ==
    /\ ~panicked
    /\ batch # <<>>
    /\ batch' = Tail(batch)
    /\ IF Head(batch).DeviceID = ""
       THEN /\ rejected' = rejected \cup {Head(batch).Timestamp}
            /\ UNCHANGED <<metricsChan, accepted, dropped, panicked>>
       ELSE /\ AddMetric(Head(batch))
            /\ UNCHANGED rejected
    /\ UNCHANGED <<twin, config, registry, resultsChan, closed, wg, locals,
                   mainPc, consumerPc, stats, nRequests, outHistory>>

\* The engine as main wires it, with both submit handlers mounted.
NextBatch ==
    \/ Start
    \/ Serve
    \/ \E dev \in Keys, sample \in StatsSamples : SubmitMetric(dev, sample)
    \/ \E b \in Batches : BatchSubmitMetrics(b)
    \/ BatchStep
    \/ Shutdown
    \/ StopRaise
    \/ StopJoin
    \/ StopCloseMetrics
    \/ StopCloseResults
    \/ \E w \in Workers : WorkerStop(w)
    \/ \E w \in Workers : WorkerRecv(w)
    \/ \E w \in Workers : RegistryLookup(w)
    \/ \E w \in Workers : RegistryInsert(w)
    \/ \E w \in Workers : WindowAppend(w)
    \/ \E w \in Workers : WindowStats(w)
    \/ \E w \in Workers : Publish(w)
    \/ Consume
    \/ ConsumerExit

SpecBatch == Init /\ [][NextBatch]_vars

\* ------------------------------------------------- the package's own API
\* A caller of the package invokes AddMetric, whatever Start and Stop have
\* done so far.
ApiAddMetric(dev, sample) ==
    /\ ~panicked
    /\ nRequests < MaxSubmit
    /\ nRequests' = nRequests + 1
    /\ AddMetric([DeviceID |-> dev, Timestamp |-> nRequests + 1,
                  CPU |-> sample[1], RPS |-> sample[2]])
    /\ UNCHANGED <<others, config, registry, resultsChan, closed, wg, locals,
                   mainPc, consumerPc, stats, rejected, outHistory>>

\* The owner of a started Analyzer calls Stop.
ApiStop ==
    /\ ~panicked
    /\ mainPc \in {"started", "serving"}
    /\ mainPc' = "shutdown"
    /\ UNCHANGED <<others, config, registry, chans, wg, locals, consumerPc,
                   stats, panicked, inHistory, outHistory>>

\* The Analyzer driven through its exported methods alone: Start, AddMetric,
\* GetResultsChan (the consumer) and Stop are called in any order a caller
\* of the package can call them in.
NextApi ==
    \/ Start
    \/ Serve
    \/ \E dev \in Devices, sample \in StatsSamples : ApiAddMetric(dev, sample)
    \/ ApiStop
    \/ StopRaise
    \/ StopJoin
    \/ StopCloseMetrics
    \/ StopCloseResults
    \/ \E w \in Workers : WorkerStop(w)
    \/ \E w \in Workers : WorkerRecv(w)
    \/ \E w \in Workers : RegistryLookup(w)
    \/ \E w \in Workers : RegistryInsert(w)
    \/ \E w \in Workers : WindowAppend(w)
    \/ \E w \in Workers : WindowStats(w)
    \/ \E w \in Workers : Publish(w)
    \/ Consume
    \/ ConsumerExit

SpecApi == Init /\ [][NextApi]_vars

\* -------------------------------------------------- analyze, call by call
\* Readings analysed over one run of the call-by-call specification.
MaxReadings == 4
\* Largest WINDOW_SIZE the call-by-call specification configures.
MaxWindowSize == 3

\* (cpu, rps) pairs a reading may carry: each signal low or high.
ReadingSamples == {<<10, 5>>, <<100, 5>>, <<10, 50>>, <<100, 50>>}

\* The device both Analyzers are given the same readings for.
TwinDevice == "d1"

\* What the second Analyzer is given for the other devices.
TwinSample == <<100, 50>>

\* A reading that may wait in metricsChan while analyze runs on another.
Pending == [DeviceID |-> "d2", Timestamp |-> 0, CPU |-> 100, RPS |-> 50]

\* analyze that scores the reading against the window as it was before the
\* append.
analyzePreUpdate(ws, hp, d, size, threshold) ==
    LET found == ws[d.DeviceID]
        hp1 == IF found # 0 THEN hp ELSE Append(hp, NewWindow(size))
        ws1 == IF found # 0 THEN ws
               ELSE [ws EXCEPT ![d.DeviceID] = Len(hp) + 1]
        i == ws1[d.DeviceID]
        win == AppendReading(hp1[i], d)
    IN  [windows |-> ws1,
         heap |-> [hp1 EXCEPT ![i] = win],
         result |-> analyzeResult(d, hp1[i].cpuValues, hp1[i].rpsValues,
                                  threshold)]

\* analyze that keeps one window for all devices.
analyzeShared(ws, hp, d, size, threshold) ==
    LET found == ws[""]
        hp1 == IF found # 0 THEN hp ELSE Append(hp, NewWindow(size))
        ws1 == IF found # 0 THEN ws ELSE [ws EXCEPT ![""] = Len(hp) + 1]
        i == ws1[""]
        win == AppendReading(hp1[i], d)
    IN  [windows |-> ws1,
         heap |-> [hp1 EXCEPT ![i] = win],
         result |-> analyzeResult(d, win.cpuValues, win.rpsValues, threshold)]

\* Analyzer.analyze run from its first line to its return by one goroutine
\* with no other in between: look the window up (allocate and insert it when
\* missing), append and trim, compute the result.  ws and hp are the
\* registry and the window objects, size and threshold the configuration.
analyze(ws, hp, d, size, threshold) ==
    LET found == ws[d.DeviceID]
        hp1 == IF found # 0 THEN hp ELSE Append(hp, NewWindow(size))
        ws1 == IF found # 0 THEN ws
               ELSE [ws EXCEPT ![d.DeviceID] = Len(hp) + 1]
        i == ws1[d.DeviceID]
        win == AppendReading(hp1[i], d)
    IN  [windows |-> ws1,
         heap |-> [hp1 EXCEPT ![i] = win],
         result |-> analyzeResult(d, win.cpuValues, win.rpsValues, threshold)]

\* NewAnalyzer(windowSize, anomalyThreshold) and Start, for every
\* configuration up to MaxWindowSize and DefaultThreshold; a reading may
\* already wait in the queue.
InitAnalyze ==
    /\ windowSize \in 1..MaxWindowSize
    /\ anomalyThreshold \in 1..DefaultThreshold
    /\ windows = [k \in Keys |-> 0]
    /\ heap = <<>>
    /\ mu = [writer |-> 0, readers |-> {}]
    /\ metricsChan \in {<<>>, <<Pending>>}
    /\ resultsChan = <<>>
    /\ closed = {}
    /\ wg = NumWorkers
    /\ pc = [w \in Workers |-> "select"]
    /\ data = [w \in Workers |-> NoData]
    /\ window = [w \in Workers |-> 0]
    /\ exists = [w \in Workers |-> FALSE]
    /\ result = [w \in Workers |-> NoResult]
    /\ mainPc = "started"
    /\ consumerPc = "idle"
    /\ statsPc = [s \in StatsCallers |-> "idle"]
    /\ statsOut = [s \in StatsCallers |-> NoStats]
    /\ panicked = FALSE
    /\ nRequests = 0
    /\ rejected = {}
    /\ accepted = {}
    /\ dropped = {}
    /\ dequeued = <<>>
    /\ appended = [k \in Keys |-> <<>>]
    /\ created = <<>>
    /\ published = {}
    /\ resultDropped = {}
    /\ inFlightAtStop = {}
    /\ batch = <<>>
    /\ twin = NoTwin

\* Worker w calls analyze on the next reading and keeps the result; the
\* other workers hold nothing.  A reading for TwinDevice is analysed by the
\* second Analyzer as well.
AnalyzeCall(w, dev, sample) ==
    LET d == [DeviceID |-> dev, Timestamp |-> nRequests + 1,
              CPU |-> sample[1], RPS |-> sample[2]]
        r == analyze(windows, heap, d, windowSize, anomalyThreshold)
    IN  /\ nRequests < MaxReadings
        /\ nRequests' = nRequests + 1
        /\ windows' = r.windows
        /\ heap' = r.heap
        /\ data' = [v \in Workers |-> IF v = w THEN d ELSE NoData]
        /\ result' = [v \in Workers |-> IF v = w THEN r.result ELSE NoResult]
        /\ appended' = [appended EXCEPT ![dev] = Append(@, d)]
        /\ created' = IF windows[dev] = 0 THEN Append(created, dev)
                      ELSE created
        /\ twin' = IF dev = TwinDevice
                   THEN analyze(twin.windows, twin.heap, d, windowSize,
                                anomalyThreshold)
                   ELSE twin
        /\ UNCHANGED <<batch, config, mu, chans, wg, pc, window, exists,
                       mainPc, consumerPc, stats, panicked, rejected,
                       accepted, dropped, dequeued, published, resultDropped,
                       inFlightAtStop>>

\* The second Analyzer alone analyses a reading for another device.
TwinCall(dev) ==
    LET d == [DeviceID |-> dev, Timestamp |-> nRequests + 1,
              CPU |-> TwinSample[1], RPS |-> TwinSample[2]]
        r == analyze(twin.windows, twin.heap, d, windowSize, anomalyThreshold)
    IN  /\ nRequests < MaxReadings
        /\ dev # TwinDevice
        /\ nRequests' = nRequests + 1
        /\ twin' = [r EXCEPT !.result = twin.result]
        /\ UNCHANGED <<batch, config, registry, chans, wg, locals, mainPc,
                       consumerPc, stats, panicked, rejected, accepted,
                       dropped, outHistory>>

NextAnalyze ==
    \/ \E w \in Workers, dev \in Devices, sample \in ReadingSamples :
           AnalyzeCall(w, dev, sample)
    \/ \E dev \in Devices : TwinCall(dev)

SpecAnalyze == InitAnalyze /\ [][NextAnalyze]_vars

\* ----------------------------------------------------------------- claims
\* The devices that have a registry entry.
Tracked == {k \in Keys : windows[k] # 0}

\* The window object the registry holds for device k.
WindowOf(k) == heap[windows[k]]

\* Field f of every reading of log, in order.
Column(log, f) == [i \in 1..Len(log) |-> log[i][f]]

\* C1: in every reachable state, the three sequences of every registry
\* window have the same length, and that length is at most windowSize.
C1_WindowBounded ==
    \A k \in Tracked :
        /\ Len(WindowOf(k).cpuValues) = Len(WindowOf(k).rpsValues)
        /\ Len(WindowOf(k).rpsValues) = Len(WindowOf(k).timestamps)
        /\ Len(WindowOf(k).timestamps) <= windowSize

\* A window is full after more readings than it can hold were appended.
C1_Witness ==
    \E k \in Tracked :
        /\ Len(appended[k]) > windowSize
        /\ Len(WindowOf(k).cpuValues) = windowSize

\* C2: eviction is strict FIFO.  After k readings of a device were appended
\* (in the order their critical sections ran) its window holds exactly the
\* last min(k, windowSize) of them, in append order, in each of the three
\* sequences.
C2_FifoEviction ==
    \A k \in Tracked :
        /\ WindowOf(k).cpuValues = LastN(Column(appended[k], "CPU"), windowSize)
        /\ WindowOf(k).rpsValues = LastN(Column(appended[k], "RPS"), windowSize)
        /\ WindowOf(k).timestamps =
               LastN(Column(appended[k], "Timestamp"), windowSize)

\* An eviction happened in a window whose retained samples differ.
C2_Witness ==
    \E k \in Tracked :
        /\ Len(appended[k]) = windowSize + 1
        /\ appended[k][1].CPU # appended[k][2].CPU
        /\ WindowOf(k).cpuValues[1] # WindowOf(k).cpuValues[windowSize]

\* The heap objects allocated for device k.
CreatedFor(k) == {i \in 1..Len(created) : created[i] = k}

\* C3: for every device exactly one window is ever created and inserted,
\* every worker analysing a reading of that device works on that window, and
\* no append is lost: after k appends the window holds min(k, windowSize)
\* samples.
C3_OneWindowPerDevice ==
    /\ \A k \in Keys :
           /\ Cardinality(CreatedFor(k)) <= 1
           /\ CreatedFor(k) = IF windows[k] = 0 THEN {} ELSE {windows[k]}
           /\ windows[k] = 0 => appended[k] = <<>>
    /\ \A k \in Tracked :
           Len(WindowOf(k).timestamps) = Min(Len(appended[k]), windowSize)
    /\ \A w \in Workers :
           pc[w] \in {"append", "stats", "publish"} =>
               /\ window[w] # 0
               /\ window[w] = windows[data[w].DeviceID]

\* Two workers hold first readings of the same never-seen device: one is
\* inside the registry critical section about to insert, the other waits.
C3_Witness ==
    \E w1, w2 \in Workers :
        /\ w1 # w2
        /\ pc[w1] = "insert" /\ ~exists[w1]
        /\ pc[w2] = "lookup"
        /\ data[w2].DeviceID = data[w1].DeviceID

\* The elements of a sequence.
Range(seq) == {seq[i] : i \in 1..Len(seq)}

\* No element occurs twice in seq.
NoDup(seq) == \A i, j \in 1..Len(seq) : i # j => seq[i] # seq[j]

\* The timestamps of the readings appended to some window.
AnalysedOf(k) == Range(Column(appended[k], "Timestamp"))

Analysed == UNION {AnalysedOf(k) : k \in Keys}

\* The timestamps handed to AddMetric so far.
Submitted == (1..nRequests) \ rejected

\* A step in which a handler called AddMetric.
AddMetricStep == nRequests' = nRequests + 1 /\ (nRequests + 1) \notin rejected'

\* C4, the call itself: with room in the queue the reading is appended at the
\* tail, with a full queue the contents are unchanged, and in both cases the
\* call returns with nothing raised.
C4_Step ==
    AddMetricStep =>
        /\ panicked' = panicked
        /\ IF Len(metricsChan) < MetricsChanCap
           THEN /\ Len(metricsChan') = Len(metricsChan) + 1
                /\ SubSeq(metricsChan', 1, Len(metricsChan)) = metricsChan
                /\ metricsChan'[Len(metricsChan')].Timestamp = nRequests + 1
                /\ (nRequests + 1) \in accepted'
           ELSE /\ metricsChan' = metricsChan
                /\ (nRequests + 1) \in dropped'

\* C4, a dropped reading is never analysed: it is in no queue, was received
\* by no worker and is in no window's log.
C4_DroppedGone ==
    \A ts \in dropped :
        /\ ts \notin Range(Column(metricsChan, "Timestamp"))
        /\ ts \notin Range(dequeued)
        /\ ts \notin Analysed
        /\ \A w \in Workers : data[w].Timestamp # ts

\* C4, the submitter never waits: a handler that reached its AddMetric call
\* can always take the step.
C4_NeverWaits ==
    (mainPc = "serving" /\ nRequests < MaxSubmit /\ ~panicked) =>
        \A dev \in Devices, sample \in Samples :
            ENABLED SubmitMetric(dev, sample)

\* C4: AddMetric is a non-blocking try-enqueue: it appends when the queue has
\* room, leaves the queue unchanged when it is full, surfaces no error, never
\* waits, and a dropped reading is never analysed.
C4_TryEnqueue ==
    /\ [](C4_DroppedGone /\ C4_NeverWaits)
    /\ [][C4_Step]_vars

\* A reading was dropped on a full queue after others were accepted.
C4_Witness ==
    /\ dropped # {}
    /\ accepted # {}
    /\ Len(metricsChan) = MetricsChanCap

\* C5: the queue depth never exceeds its capacity; submitted = accepted +
\* dropped; dequeued <= accepted <= submitted; every analysed reading was
\* submitted, accepted and dequeued, and none is dequeued or analysed twice.
C5_Accounting ==
    /\ Len(metricsChan) <= MetricsChanCap
    /\ accepted \cup dropped = Submitted
    /\ accepted \cap dropped = {}
    /\ Cardinality(Submitted) = Cardinality(accepted) + Cardinality(dropped)
    /\ Len(dequeued) <= Cardinality(accepted)
    /\ Cardinality(accepted) <= Cardinality(Submitted)
    /\ NoDup(dequeued)
    /\ Range(dequeued) \subseteq accepted
    /\ Analysed \subseteq Range(dequeued)
    /\ \A k \in Keys : NoDup(Column(appended[k], "Timestamp"))
    /\ \A k1, k2 \in Keys : k1 # k2 => AnalysedOf(k1) \cap AnalysedOf(k2) = {}

\* A burst overflowed the queue, and workers have analysed part of it while
\* part is still queued.
C5_Witness ==
    /\ dropped # {}
    /\ Analysed # {}
    /\ Len(dequeued) < Cardinality(accepted)

\* C6: Stop raises the stop signal, joins, and only then closes: either
\* queue is closed only in states where the stop signal is raised and every
\* started worker has exited (wg counts exactly the running workers), so no
\* send on a closed queue panics and no worker receives from the closed
\* Ingestion Queue.
C6_CloseAfterJoin ==
    /\ wg = Cardinality({w \in Workers : pc[w] \notin {"idle", "exited"}})
    /\ (closed \cap {"metricsChan", "resultsChan"} # {}) =>
           /\ "stopChan" \in closed
           /\ wg = 0
           /\ \A w \in Workers : pc[w] = "exited"
    /\ "resultsChan" \in closed => "metricsChan" \in closed
    /\ ~panicked
    /\ \A w \in Workers : InFlight(w) => data[w] # NoData

\* Stop ran to its end after waiting for a worker that was busy when the
\* stop signal was raised.
C6_Witness ==
    /\ mainPc = "stopped"
    /\ inFlightAtStop # {}
    /\ closed = {"stopChan", "metricsChan", "resultsChan"}

\* C7 as claimed: once the stop signal is raised no worker dequeues another
\* reading from the Ingestion Queue.
C7_NoDequeueAfterStop ==
    [][("stopChan" \in closed) => dequeued' = dequeued]_vars

\* The workers holding reading ts between receive and publish.
HeldBy(ts) == {w \in Workers : InFlight(w) /\ data[w].Timestamp = ts}

\* Reading ts was appended to its window and its result met the Result Queue.
Completed(ts) == ts \in Analysed /\ ts \in published \cup resultDropped

\* C8, states: a reading in flight when stop was raised is, at every later
\* moment, either still held by a running worker with both queues open, or
\* appended to its window and through its publish attempt.
C8_InFlightKept ==
    /\ \A ts \in inFlightAtStop :
           \/ /\ HeldBy(ts) # {}
              /\ closed \cap {"metricsChan", "resultsChan"} = {}
           \/ Completed(ts)
    /\ \A w \in Workers :
           /\ pc[w] \in {"stats", "publish"} => data[w].Timestamp \in Analysed
           /\ pc[w] = "publish" =>
                  /\ result[w].Timestamp = data[w].Timestamp
                  /\ result[w].DeviceID = data[w].DeviceID
    /\ published \cap resultDropped = {}

\* C8, the publish attempt: with free capacity the result goes onto the
\* Result Queue; only a full queue drops it.
C8_PublishStep ==
    \A w \in Workers :
        (pc[w] = "publish" /\ pc'[w] # "publish") =>
            IF Len(resultsChan) < ResultsChanCap
            THEN /\ resultsChan' = Append(resultsChan, result[w])
                 /\ result[w].Timestamp \in published'
            ELSE /\ resultsChan' = resultsChan
                 /\ result[w].Timestamp \in resultDropped'

\* C8: a reading already dequeued when the stop signal is raised is not lost:
\* before its worker exits, and so before either queue is closed, it is
\* appended to its window, analysed, and published whenever the Result Queue
\* has room at the attempt.
C8_NoInFlightLoss ==
    /\ []C8_InFlightKept
    /\ [][C8_PublishStep]_vars

\* Stop returned, and a reading that was in flight when stop was raised has
\* been published.
C8_Witness ==
    /\ mainPc = "stopped"
    /\ inFlightAtStop \cap published # {}

\* Worker w holds a.mu for writing / holds some window's lock.
HoldsRegistry(w) == mu.writer = w

HoldsWindow(w) == \E i \in 1..Len(heap) : heap[i].mu = w

\* C9, the locks held: a worker holds a.mu exactly between its lookup and
\* its insert and a window lock exactly between its append and the return of
\* analyze, never both; a GetStats caller holds a.mu for reading only and
\* never a window lock.
C9_LocksHeld ==
    /\ \A w \in Workers :
           /\ ~(HoldsRegistry(w) /\ HoldsWindow(w))
           /\ HoldsRegistry(w) <=> pc[w] = "insert"
           /\ HoldsWindow(w) <=> pc[w] = "stats"
    /\ \A i \in 1..Len(heap) : heap[i].mu \in Workers \cup {0}
    /\ mu.writer \in Workers \cup {0}
    /\ mu.readers = {s \in StatsCallers : statsPc[s] = "reading"}
    /\ mu.writer # 0 => mu.readers = {}

\* C9, no deadlock: the wait-for graph has no cycle.  A worker waiting for
\* a.mu waits for a holder whose next step (the insert and unlock, or the
\* return of GetStats) is enabled; a worker waiting for a window lock waits
\* for a worker inside that window's critical section, which holds no other
\* lock and acquires none before it returns; no lock holder waits.
C9_NoLockCycle ==
    ~panicked =>
        /\ \A w \in Workers :
               /\ HoldsRegistry(w) => ENABLED RegistryInsert(w)
               /\ (pc[w] = "lookup" /\ ~ENABLED RegistryLookup(w)) =>
                      \/ \E v \in Workers \ {w} :
                             HoldsRegistry(v) /\ ENABLED RegistryInsert(v)
                      \/ \E s \in mu.readers : ENABLED StatsReturn(s)
               /\ (pc[w] = "append" /\ ~ENABLED WindowAppend(w)) =>
                      \E v \in Workers \ {w} :
                          /\ heap[window[w]].mu = v
                          /\ pc[v] = "stats"
                          /\ window[v] = window[w]
                          /\ ~HoldsRegistry(v)
        /\ \A s \in StatsCallers :
               statsPc[s] = "reading" => ENABLED StatsReturn(s)

\* C9: no worker and no GetStats caller ever holds the registry lock and a
\* window lock together, and no deadlock among workers and stats readers is
\* reachable.
C9_NoNestedLocks == C9_LocksHeld /\ C9_NoLockCycle

\* One worker holds a window lock while a GetStats caller holds a.mu for
\* reading and another worker waits for a.mu.
C9_Witness ==
    \E w1, w2 \in Workers :
        /\ w1 # w2
        /\ pc[w1] = "stats"
        /\ pc[w2] = "lookup"
        /\ mu.readers # {}

\* The position of worker w's own reading in its device's log of appends.
OwnIndex(w) ==
    CHOOSE i \in 1..Len(appended[data[w].DeviceID]) :
        appended[data[w].DeviceID][i] = data[w]

\* Column f of the window as worker w's own append left it.
OwnWindow(w, f) ==
    LastN(SubSeq(Column(appended[data[w].DeviceID], f), 1, OwnIndex(w)),
          windowSize)

\* C10: at most one worker at a time is inside a window's critical section;
\* while it is there the window is exactly as its own append left it, and
\* the AnalysisResult it leaves with holds the statistics of that window.
C10_WindowExclusive ==
    /\ \A i \in 1..Len(heap) :
           /\ Cardinality({w \in Workers : pc[w] = "stats" /\ window[w] = i}) <= 1
           /\ heap[i].mu # 0 =>
                  pc[heap[i].mu] = "stats" /\ window[heap[i].mu] = i
    /\ \A w \in Workers :
           /\ pc[w] = "stats" =>
                  /\ heap[window[w]].mu = w
                  /\ heap[window[w]].cpuValues = OwnWindow(w, "CPU")
                  /\ heap[window[w]].rpsValues = OwnWindow(w, "RPS")
                  /\ heap[window[w]].timestamps = OwnWindow(w, "Timestamp")
           /\ pc[w] = "publish" =>
                  result[w] = analyzeResult(data[w], OwnWindow(w, "CPU"),
                                            OwnWindow(w, "RPS"),
                                            anomalyThreshold)

\* A worker is inside a window's critical section while another, holding a
\* reading with different values for the same window, waits for the lock.
C10_Witness ==
    \E w1, w2 \in Workers :
        /\ pc[w1] = "stats"
        /\ pc[w2] = "append"
        /\ window[w2] = window[w1]
        /\ data[w2].CPU # data[w1].CPU

\* ------------------------------------------------- claims about analyze
\* The workers that hold the reading and the result of the last analyze call.
Callers == {w \in Workers : data[w].DeviceID # ""}

RECURSIVE SumSq(_)
SumSq(s) == IF s = <<>> THEN 0 ELSE Head(s) * Head(s) + SumSq(Tail(s))

\* n * (x - mean(s)), for n = Len(s).
ScaledDev(x, s) == Len(s) * x - SeqSum(s)

\* n^2 times the population variance of s.
ScaledVar(s) == Len(s) * SumSq(s) - SeqSum(s) * SeqSum(s)

\* The square of the z-score of x over the samples s, as a fraction: the
\* z-score is (x - mean) / stddev, and 0 when the stddev is 0.
ZSq(x, s) ==
    IF ScaledVar(s) > 0 THEN <<ScaledDev(x, s) * ScaledDev(x, s), ScaledVar(s)>>
    ELSE <<0, 1>>

\* |z| > t for the z-score of x over the samples s.
ZExceeds(x, s, t) == ZSq(x, s)[1] > t * t * ZSq(x, s)[2]

\* Fractions a and b are the same number.
RatEq(a, b) == a[1] * b[2] = b[1] * a[2]

\* The larger of two fractions.
Larger(a, b) == IF a[1] * b[2] < b[1] * a[2] THEN b ELSE a

\* The window of the device worker w's reading is for.
CallWindow(w) == WindowOf(data[w].DeviceID)

\* C11: the anomaly flag of the result is set if and only if |zCPU| > T or
\* |zRPS| > T, each z-score being (value - mean) / population stddev over
\* the window after the append, and 0 when that stddev is 0.
C11_AnomalyFlag ==
    \A w \in Callers :
        result[w].IsAnomaly <=>
            \/ ZExceeds(data[w].CPU, CallWindow(w).cpuValues, anomalyThreshold)
            \/ ZExceeds(data[w].RPS, CallWindow(w).rpsValues, anomalyThreshold)

\* A reading is flagged on its request rate alone, and over a full window
\* of three samples.
C11_Witness ==
    \E w \in Callers :
        /\ result[w].IsAnomaly
        /\ Len(CallWindow(w).cpuValues) = 3
        /\ ~ZExceeds(data[w].CPU, CallWindow(w).cpuValues, anomalyThreshold)

\* The label the two threshold conditions and the z-score signs call for.
LabelFor(w) ==
    LET overCPU == ZExceeds(data[w].CPU, CallWindow(w).cpuValues,
                            anomalyThreshold)
        overRPS == ZExceeds(data[w].RPS, CallWindow(w).rpsValues,
                            anomalyThreshold)
        upCPU == ScaledDev(data[w].CPU, CallWindow(w).cpuValues) > 0
        upRPS == ScaledDev(data[w].RPS, CallWindow(w).rpsValues) > 0
    IN  IF overCPU /\ overRPS THEN "MULTIPLE_ANOMALY"
        ELSE IF overCPU THEN IF upCPU THEN "CPU_SPIKE" ELSE "CPU_DROP"
        ELSE IF overRPS THEN IF upRPS THEN "RPS_SPIKE" ELSE "RPS_DROP"
        ELSE ""

\* C12: the anomaly type is "" when neither condition holds, CPU_SPIKE or
\* CPU_DROP by the sign of zCPU when only the CPU condition holds, RPS_SPIKE
\* or RPS_DROP by the sign of zRPS when only the request-rate condition
\* holds, MULTIPLE_ANOMALY when both hold; the score is the larger of |zCPU|
\* and |zRPS|; the label is non-empty exactly when the flag is set.
C12_AnomalyLabel ==
    \A w \in Callers :
        /\ result[w].AnomalyType = LabelFor(w)
        /\ RatEq(result[w].AnomalyScore,
                 Larger(ZSq(data[w].CPU, CallWindow(w).cpuValues),
                        ZSq(data[w].RPS, CallWindow(w).rpsValues)))
        /\ (result[w].AnomalyType # "") <=> result[w].IsAnomaly

\* Both conditions hold with opposite directions: the CPU value is above
\* its mean, the request rate below its own.
C12_Witness ==
    \E w \in Callers :
        /\ result[w].AnomalyType = "MULTIPLE_ANOMALY"
        /\ ScaledDev(data[w].CPU, CallWindow(w).cpuValues) > 0
        /\ ScaledDev(data[w].RPS, CallWindow(w).rpsValues) < 0

\* C13: the statistics reported for a reading are those of the window after
\* the reading was appended and the oldest sample evicted: the reading's own
\* value is the newest sample of that window, the rolling averages are the
\* window's means and the standard deviation is the larger of its two
\* deviations; the first reading of a device gets its own values as averages.
C13_SelfInclusive ==
    \A w \in Callers :
        LET log == appended[data[w].DeviceID]
            cpu == CallWindow(w).cpuValues
            rps == CallWindow(w).rpsValues
        IN  /\ log[Len(log)] = data[w]
            /\ cpu = LastN(Column(log, "CPU"), windowSize)
            /\ rps = LastN(Column(log, "RPS"), windowSize)
            /\ Len(cpu) >= 1
            /\ cpu[Len(cpu)] = data[w].CPU
            /\ rps[Len(rps)] = data[w].RPS
            /\ RatEq(result[w].RollingAvgCPU, <<SeqSum(cpu), Len(cpu)>>)
            /\ RatEq(result[w].RollingAvgRPS, <<SeqSum(rps), Len(rps)>>)
            /\ RatEq(result[w].StandardDev,
                     Larger(<<ScaledVar(cpu), Len(cpu) * Len(cpu)>>,
                            <<ScaledVar(rps), Len(rps) * Len(rps)>>))
            /\ Len(log) = 1 =>
                   /\ result[w].RollingAvgCPU = <<data[w].CPU, 1>>
                   /\ result[w].RollingAvgRPS = <<data[w].RPS, 1>>

\* A reading arrives at a full window of several samples, evicts the oldest
\* and moves the average away from its own value.
C13_Witness ==
    \E w \in Callers :
        /\ windowSize > 1
        /\ Len(appended[data[w].DeviceID]) > windowSize
        /\ result[w].RollingAvgCPU # <<data[w].CPU, 1>>
        /\ result[w].StandardDev[1] > 0

\* C14: whenever the window holds fewer than 2 samples after the append, the
\* result has the flag unset, score 0, an empty label and deviation 0.
C14_ColdStart ==
    \A w \in Callers :
        Len(CallWindow(w).cpuValues) < 2 =>
            /\ ~result[w].IsAnomaly
            /\ result[w].AnomalyScore = <<0, 1>>
            /\ result[w].AnomalyType = ""
            /\ result[w].StandardDev = <<0, 1>>

\* A window of one sample sees the values jump from low to high under the
\* smallest threshold.
C14_Witness ==
    \E w \in Callers :
        LET log == appended[data[w].DeviceID]
        IN  /\ Len(CallWindow(w).cpuValues) < 2
            /\ anomalyThreshold = 1
            /\ Len(log) >= 2
            /\ log[Len(log) - 1].CPU = 10
            /\ log[Len(log) - 1].RPS = 5
            /\ data[w].CPU = 100
            /\ data[w].RPS = 50

\* Device k was given CPU values 10, 10, 10, 100 in this order at a constant
\* request rate, under windowSize 3 and threshold 2.
WorkedExample(k) ==
    /\ windowSize = 3
    /\ anomalyThreshold = 2
    /\ Column(appended[k], "CPU") = <<10, 10, 10, 100>>
    /\ \A i \in 1..Len(appended[k]) : appended[k][i].RPS = appended[k][1].RPS

\* C15: in the worked example the retained CPU window is [10, 10, 100], its
\* mean is 40 and its population variance 1800, the square of the CPU
\* z-score of the 4th reading is 2, and the 4th result has the flag unset.
C15_WorkedExample ==
    \A k \in Devices :
        WorkedExample(k) =>
            /\ WindowOf(k).cpuValues = <<10, 10, 100>>
            /\ \A w \in Callers :
                   data[w] = appended[k][4] =>
                       /\ result[w].RollingAvgCPU = <<40, 1>>
                       /\ result[w].StandardDev = <<1800, 1>>
                       /\ result[w].AnomalyScore = <<2, 1>>
                       /\ ~result[w].IsAnomaly
                       /\ result[w].AnomalyType = ""

\* The 4th reading of the worked example has just been analysed.
C15_Witness ==
    \E k \in Devices, w \in Callers :
        /\ WorkedExample(k)
        /\ data[w] = appended[k][4]

\* The second Analyzer's window for device k, or the fresh one when it has
\* none.
TwinWindowOf(k) ==
    IF twin.windows[k] = 0 THEN NewWindow(windowSize)
    ELSE twin.heap[twin.windows[k]]

\* The first Analyzer's window for device k, likewise.
WindowOrNew(k) == IF windows[k] = 0 THEN NewWindow(windowSize) ELSE WindowOf(k)

\* C16: two Analyzers of one configuration that start from the same window
\* for a device and are given the same readings for it keep identical
\* windows for it and return identical results, whatever their windows for
\* other devices, their queues and the worker that makes the call.
C16_Deterministic ==
    /\ (windows[TwinDevice] = 0) <=> (twin.windows[TwinDevice] = 0)
    /\ WindowOrNew(TwinDevice) = TwinWindowOf(TwinDevice)
    /\ \A w \in Callers :
           data[w].DeviceID = TwinDevice => result[w] = twin.result

\* Both have analysed an anomalous reading for the device while their
\* windows for another device differ, the first Analyzer's queue holds a
\* reading and the call was made by the second worker.
C16_Witness ==
    \E w \in Callers, k \in Devices :
        /\ w # 1
        /\ data[w].DeviceID = TwinDevice
        /\ result[w].IsAnomaly
        /\ twin.result.IsAnomaly
        /\ k # TwinDevice
        /\ WindowOrNew(k) # TwinWindowOf(k)
        /\ metricsChan # <<>>

\* ------------------------------------------------------ claims, continued
\* A step of a GetStats call: caller s takes the read lock or returns.
StatsStep(s) == statsPc'[s] # statsPc[s]

\* C17: a GetStats call leaves the registry, every window, both queues, the
\* stop state and the configuration unchanged, and what it returns is the
\* number of registry entries, the depth of metricsChan, the configured
\* window size and the configured threshold at its return.
C17_StatsReadOnly ==
    [][\A s \in StatsCallers :
           StatsStep(s) =>
               /\ <<windows, heap, chans, config, wg, locals>>' =
                      <<windows, heap, chans, config, wg, locals>>
               /\ statsPc'[s] = "idle" =>
                      statsOut'[s] =
                          [devices_tracked |-> Cardinality(Range(created)),
                           window_size |-> WindowSize,
                           threshold |-> DefaultThreshold,
                           queue_size |-> Len(metricsChan)]]_vars

\* GetStats has returned two tracked devices and a queued reading while a
\* worker is inside a window's critical section.
C17_Witness ==
    \E s \in StatsCallers, w \in Workers :
        /\ statsOut[s].devices_tracked = 2
        /\ statsOut[s].queue_size = 1
        /\ pc[w] = "stats"

\* The result stream is closed.
ResultsClosed == "resultsChan" \in closed

\* The stream is closed only once the stop signal is raised and every worker
\* has exited, never while main is still up to its call of Stop; the
\* consumer is done only on a closed and drained stream.
C18_ClosedAfterStop ==
    /\ ResultsClosed =>
           /\ "stopChan" \in closed
           /\ \A w \in Workers : pc[w] = "exited"
           /\ wg = 0
    /\ mainPc \in {"new", "started", "serving", "shutdown"} => ~ResultsClosed
    /\ consumerPc = "done" => ResultsClosed /\ resultsChan = <<>>

\* Closing leaves the buffered results in place, and on a closed stream
\* nothing is added: the buffer only loses its head to the ranging consumer.
C18_DrainStep ==
    /\ (ResultsClosed' /\ ~ResultsClosed) => resultsChan' = resultsChan
    /\ (ResultsClosed /\ resultsChan' # resultsChan) =>
           /\ consumerPc = "ranging"
           /\ resultsChan' = Tail(resultsChan)

C19_NeverCrashes == ~panicked
\* No reading known to the engine carries the empty device identifier: none
\* in metricsChan, none held by a worker, none in a window's log, and the
\* registry has no entry for it.
C20_NoEmptyKey ==
    /\ \A i \in 1..Len(metricsChan) : metricsChan[i].DeviceID # ""
    /\ \A w \in Workers : InFlight(w) => data[w].DeviceID # ""
    /\ windows[""] = 0
    /\ appended[""] = <<>>
    /\ \A i \in 1..Len(created) : created[i] # ""
    /\ rejected \cap (accepted \cup dropped) = {}

\* A batch iteration over a metric with an empty device_id calls AddMetric
\* for nothing: it only records the skip.
C20_SkipStep ==
    (batch # <<>> /\ batch' = Tail(batch) /\ Head(batch).DeviceID = "") =>
        /\ UNCHANGED <<metricsChan, accepted, dropped>>
        /\ rejected' = rejected \cup {Head(batch).Timestamp}

\* C20: in SubmitMetric and in BatchSubmitMetrics a metric with an empty
\* device_id is rejected or skipped before AddMetric is called, so every
\* reading in the Ingestion Queue and every key of the window registry is a
\* non-empty identifier.
C20_EmptyIdRejected == []C20_NoEmptyKey /\ [][C20_SkipStep]_vars

\* A request with an empty device_id has been turned away, the batch
\* handler has handed its first metric to AddMetric and the metric it looks
\* at next has an empty device_id.
C20_Witness ==
    /\ rejected # {}
    /\ Len(batch) = 1
    /\ Head(batch).DeviceID = ""
    /\ Head(batch).Timestamp - 1 \in accepted
    /\ \E k \in Tracked : WindowOf(k).cpuValues # <<>>

\* ------------------------------------------------ claims about the engine
\* The devices for which some worker has begun analyze: those of the
\* readings workers hold and of the readings already appended.
BegunDevices ==
    {data[w].DeviceID : w \in {v \in Workers : InFlight(v)}}
        \cup {k \in Keys : appended[k] # <<>>}

\* The devices for which some worker has left analyze's registry section
\* (lookup and insert under a.mu).
PassedRegistry ==
    {data[w].DeviceID :
        w \in {v \in Workers : pc[v] \in {"append", "stats", "publish"}}}
        \cup {k \in Keys : appended[k] # <<>>}

\* No step removes or replaces a registry entry or a window object.
C21_GrowStep ==
    /\ \A k \in Keys : windows[k] # 0 => windows'[k] = windows[k]
    /\ Len(heap') >= Len(heap)
    /\ \A i \in 1..Len(heap) : heap'[i].maxSize = heap[i].maxSize

\* C21 as stated: the registry only grows, and its keys always equal the
\* devices for which some worker has begun analyze.
C21_KeysAreBegun == [](Tracked = BegunDevices) /\ [][C21_GrowStep]_vars

\* C21, amended: the registry only grows, no step (Stop's included) removes
\* or replaces an entry, and its keys always equal the devices for which
\* some worker has left the registry section of analyze; a device whose
\* first reading is still before the insert has no entry yet.
C21_RegistryGrows ==
    /\ [](/\ Tracked = PassedRegistry
          /\ Tracked = Range(created)
          /\ Tracked \subseteq BegunDevices)
    /\ [][C21_GrowStep]_vars

\* Stop has returned and the registry still holds both devices' windows,
\* with their samples.
C21_Witness ==
    /\ mainPc = "stopped"
    /\ Cardinality(Tracked) = 2
    /\ \A k \in Tracked : WindowOf(k).cpuValues # <<>>
\* A worker leaves its publish attempt for the top of its loop, and with
\* resultsChan full it leaves the channel alone and counts the drop.
C22_PublishStep ==
    \A w \in Workers :
        (pc[w] = "publish" /\ pc'[w] # "publish") =>
            /\ pc'[w] = "select"
            /\ Len(resultsChan) = ResultsChanCap =>
                   /\ resultsChan' = resultsChan
                   /\ resultDropped' =
                          resultDropped \cup {result[w].Timestamp}

\* C22: with nothing draining resultsChan, a worker whose publish finds the
\* channel full drops the result and returns to dequeuing, so under weak
\* fairness of the workers every reading accepted into metricsChan is
\* eventually appended to its window, unless the stop signal is raised.
C22_StalledConsumer ==
    /\ \A t \in 1..MaxSubmit :
           (t \in accepted) ~> (t \in Analysed \/ "stopChan" \in closed)
    /\ \A w \in Workers : (pc[w] = "publish") ~> (pc[w] # "publish")
    /\ [][C22_PublishStep]_vars

\* resultsChan is full, two results were dropped, every reading has been
\* appended and the stop signal is not raised.
C22_Witness ==
    /\ Len(resultsChan) = ResultsChanCap
    /\ Cardinality(resultDropped) >= 2
    /\ Analysed = accepted
    /\ "stopChan" \notin closed

\* Stop has returned: both queues are closed and every worker has exited.
StopReturned ==
    /\ mainPc = "stopped"
    /\ {"metricsChan", "resultsChan"} \subseteq closed
    /\ \A w \in Workers : pc[w] = "exited"

\* C23: once the stop signal is raised, under weak fairness every worker
\* exits and Stop returns with both queues closed, whatever the queues hold
\* and wherever the workers are.
C23_ShutdownTerminates == ("stopChan" \in closed) ~> StopReturned

\* Stop has returned after it was raised with a worker in the middle of
\* analyze; resultsChan is full with nobody to drain it and a reading is
\* left in metricsChan.
C23_Witness ==
    /\ StopReturned
    /\ inFlightAtStop # {}
    /\ Len(resultsChan) = ResultsChanCap
    /\ metricsChan # <<>>

\* seq is strictly increasing.
Increasing(seq) == \A i, j \in 1..Len(seq) : i < j => seq[i] < seq[j]

\* The workers holding reading ts between their receive and their append.
BeforeAppend(ts) ==
    {w \in Workers : pc[w] \in {"lookup", "insert", "append"}
                        /\ data[w].Timestamp = ts}

\* When a worker appends its reading, every reading dequeued before it and
\* not yet in a window is in the hands of another worker that has not
\* reached its append.
C24_AppendStep ==
    \A w \in Workers :
        (pc[w] = "append" /\ pc'[w] = "stats") =>
            \A t \in Range(dequeued) \ Analysed :
                t < data[w].Timestamp => BeforeAppend(t) \ {w} # {}

\* C24: readings leave metricsChan in the order they were accepted, but the
\* order of the appends is that of the workers' progress: a reading is
\* appended ahead of an earlier one of the same device only while another
\* worker holds the earlier one, and then the window's sample order differs
\* from the acceptance order.
C24_OrderLimits ==
    /\ [](/\ Increasing(dequeued)
          /\ \A k \in Keys :
                 /\ AnalysedOf(k) \subseteq Range(dequeued)
                 /\ Cardinality(AnalysedOf(k)) = Len(appended[k]))
    /\ [][C24_AppendStep]_vars

\* Two workers received two readings of one device, worker v the earlier
\* one; w has appended and computed, v appended after it: the device's
\* window holds the later reading before the earlier one.
C24_Witness ==
    \E v, w \in Workers :
        /\ v # w
        /\ pc[v] = "stats"
        /\ pc[w] = "publish"
        /\ data[v].DeviceID = data[w].DeviceID
        /\ data[v].Timestamp < data[w].Timestamp
        /\ \E i, j \in 1..Len(dequeued) :
               i < j /\ dequeued[i] = data[v].Timestamp
                     /\ dequeued[j] = data[w].Timestamp
        /\ WindowOf(data[v].DeviceID).timestamps =
               <<data[w].Timestamp, data[v].Timestamp>>
        /\ appended[data[v].DeviceID] = <<data[w], data[v]>>

\* Worker w is inside analyze.
InAnalyze(w) == pc[w] \in {"lookup", "insert", "append", "stats"}

\* The samples of a window, without its lock.
Contents(win) == <<win.cpuValues, win.rpsValues, win.timestamps>>

\* A step of analyze for device d by worker w: neither queue changes; the
\* registry changes only by gaining d's entry when d had none; every
\* window made for another device is untouched; d's window gains at most
\* the reading itself.
C25_AnalyzeStep ==
    \A w \in Workers :
        (InAnalyze(w) /\ pc'[w] # pc[w]) =>
            LET d == data[w].DeviceID
            IN  /\ chans' = chans
                /\ \A k \in Keys \ {d} :
                       /\ windows'[k] = windows[k]
                       /\ windows[k] # 0 =>
                              Contents(heap'[windows[k]]) = Contents(WindowOf(k))
                /\ windows[d] # 0 => windows'[d] = windows[d]
                /\ windows'[d] # windows[d] =>
                       /\ pc[w] = "insert"
                       /\ heap' = Append(heap, NewWindow(windowSize))
                       /\ windows'[d] = Len(heap')
                /\ \A i \in 1..Len(heap) :
                       \/ heap'[i] = heap[i]
                       \/ /\ created[i] = d
                          /\ i = window[w]
                          /\ Contents(heap'[i]) \in
                                 {Contents(heap[i]),
                                  Contents(AppendReading(heap[i], data[w]))}
                /\ \A k \in Keys \ {d} : appended'[k] = appended[k]

\* C25: analysing a reading for device d changes only d's window and, on
\* first sight of d, adds d's entry to the registry; the windows of all
\* other devices keep their contents and analyze modifies neither queue.
C25_AnalyzeFrame == [][C25_AnalyzeStep]_vars

\* Two workers are inside analyze for different devices at once, each past
\* its append: each device's window ends in its worker's reading, one of
\* them after an earlier sample that the other worker's steps left alone.
C25_Witness ==
    \E v, w \in Workers :
        /\ pc[v] = "stats"
        /\ pc[w] = "stats"
        /\ data[v].DeviceID # data[w].DeviceID
        /\ Len(WindowOf(data[v].DeviceID).timestamps) = 2
        /\ WindowOf(data[v].DeviceID).timestamps[2] = data[v].Timestamp
        /\ WindowOf(data[w].DeviceID).timestamps = <<data[w].Timestamp>>

\* The timestamps of the readings sitting in metricsChan.
Queued == {metricsChan[i].Timestamp : i \in 1..Len(metricsChan)}

\* A step taken after Stop has returned changes no window, no registry
\* entry and no worker, publishes nothing and takes nothing from
\* metricsChan.
C26_StepAfterStop ==
    mainPc = "stopped" =>
        /\ mainPc' = "stopped"
        /\ windows' = windows
        /\ heap' = heap
        /\ locals' = locals
        /\ metricsChan' = metricsChan
        /\ dequeued' = dequeued
        /\ appended' = appended
        /\ created' = created
        /\ published' = published
        /\ resultDropped' = resultDropped
        /\ \A i \in 1..Len(resultsChan') : resultsChan'[i] \in Range(resultsChan)

\* C26: after Stop has returned every worker has exited, no window is
\* mutated, no registry entry is added and no result is published in any
\* later state, and the readings left in metricsChan have not been and are
\* never analysed.
C26_Quiescent ==
    /\ [](mainPc = "stopped" =>
              /\ \A w \in Workers : pc[w] = "exited" /\ data[w] = NoData
              /\ mu.writer = 0
              /\ \A i \in 1..Len(heap) : heap[i].mu = 0
              /\ Queued \cap (Analysed \cup Range(dequeued)) = {})
    /\ [][C26_StepAfterStop]_vars

\* Stop has returned and steps were taken after it (the consumer's range
\* has ended): a reading is still in metricsChan, unanalysed, beside
\* windows that hold the readings analysed before.
C26_Witness ==
    /\ mainPc = "stopped"
    /\ consumerPc = "done"
    /\ Queued # {}
    /\ Queued \cap Analysed = {}
    /\ Analysed # {}
    /\ published # {}

====
